---- MODULE Spec2Model ----
(***************************************************************************)
(* Page-flow model of generate_pdf_docs.py: class Basic10Manual(FPDF) and   *)
(* the way create_documentation drives it.                                  *)
(*                                                                          *)
(* Basic10Manual inherits the page-flow engine of the fpdf package: the     *)
(* operators cell, ln, multi_cell, set_y, add_page and output below follow  *)
(* that package's documented behaviour at the places where the source       *)
(* calls them (A4 portrait, millimetres, 10 mm margins, automatic page      *)
(* break when y + h passes the trigger, font and colours saved around the   *)
(* footer/header hooks, x kept across an automatic break).                  *)
(* Lengths are whole millimetres: every height and offset the source uses   *)
(* is a whole number.                                                       *)
(***************************************************************************)
EXTENDS Integers, Sequences, FiniteSets, TLC

\* ---------------------------------------------------------------- bounds
MaxPages == 3          \* pages a behaviour may open
MaxCodeLines == 3      \* lines of one code_block call
MaxWrap == 2           \* wrapped lines of one multi_cell call
MaxRows == 4           \* data rows of one table
MaxFlowLines == 110    \* lines of the single code block of SpecFlow

MaxY == 340            \* how far below the page pdf.ln may push the cursor

\* ------------------------------------------------------ program constants
PageW == 210           \* FPDF() default format A4, unit mm
PageH == 297
LMargin == 10          \* FPDF() default margins: 1 cm
TMargin == 10
RMargin == 10
BMargin == 20          \* set_auto_page_break(auto=True, margin=20)
FooterOffset == 15     \* footer: set_y(-15)
HeaderW == 95          \* header: cell(95, 10, ...)
HeaderH == 10
FooterH == 10
CodeLineH == 5
TextLineH == 5
TableHeaderH == 7
TableRowH == 6

Trigger == PageH - BMargin      \* page_break_trigger = h - b_margin

Black == <<0, 0, 0>>
Grey == <<128, 128, 128>>
White == <<255, 255, 255>>
TitleBlue == <<0, 100, 180>>
CodeGrey == <<240, 240, 240>>
StripeGrey == <<248, 248, 248>>

\* The caption of the footer and the title of the header, as tokens.
Caption == "Basic-10 v1.9.1 - BASIC to IC10 Compiler for Stationeers"
DocTitle == "Basic-10 Compiler Documentation"

VARIABLES
    page,      \* page_no(): 0 before the first add_page
    x, y,      \* the cursor
    style,     \* StyleContext: font family, style flags, size, text and fill colour
    hdr,       \* hdr[p]: what the header hook drew on page p (page labels)
    ftr,       \* ftr[p]: how many footers were drawn on page p
    out,       \* the draw events of the most recent call, in order
    call,      \* the most recent call: its name, argument and where it started
    tbl,       \* the caller's table loop: widths, rows, next row index, rows placed
    closed,    \* TRUE once output() has run
    err        \* the exception that ended create_documentation, "" while none

vars == <<page, x, y, style, hdr, ftr, out, call, tbl, closed, err>>

\* ------------------------------------------------------------ the engine
\* The object as one value at the start of a call. in_footer is FPDF's
\* re-entrancy flag; lasth is the height of the last cell, which only ln()
\* reads, and every ln() of the source follows a cell of the same call.
Pdf ==
    [page |-> page, x |-> x, y |-> y, lasth |-> 0, st |-> style,
     hdr |-> hdr, ftr |-> ftr, out |-> <<>>, in_footer |-> FALSE, err |-> ""]

Ev(kind, s, w, h, txt, num) ==
    [kind |-> kind, page |-> s.page, x |-> s.x, y |-> s.y, w |-> w, h |-> h,
     txt |-> txt, num |-> num, st |-> s.st]

\* A page-transition mark (close, open, ready): the page and the style there.
Mark(kind, s) ==
    [kind |-> kind, page |-> s.page, x |-> 0, y |-> 0, w |-> 0, h |-> 0,
     txt |-> "", num |-> 0, st |-> s.st]

\* The mark at the end of add_page, with the cursor add_page leaves.
Ready(s) == [Mark("ready", s) EXCEPT !.x = s.x, !.y = s.y]

Emit(s, e) == [s EXCEPT !.out = Append(@, e)]

set_font(s, family, fstyle, size) ==
    [s EXCEPT !.st.family = family, !.st.fstyle = fstyle, !.st.size = size]

set_text_color(s, c) == [s EXCEPT !.st.text = c]

set_fill_color(s, c) == [s EXCEPT !.st.fill = c]

set_x(s, v) == [s EXCEPT !.x = v]

\* set_y: a negative value counts from the bottom edge; x returns to the margin.
set_y(s, v) == [s EXCEPT !.y = IF v < 0 THEN PageH + v ELSE v, !.x = LMargin]

\* ln(h): x to the left margin, y down by h. It never breaks the page.
ln(s, h) == [s EXCEPT !.x = LMargin, !.y = @ + h]

\* ln(): the same with the height of the last cell.
ln_last(s) == ln(s, s.lasth)

\* Mutant of will_page_break: automatic page breaks switched off
\* (set_auto_page_break(auto=False, ...)).
will_page_break_off(s, h) == FALSE

\* Mutant of will_page_break: the in_footer guard missing for a footer
\* that is the first thing drawn since the page was closed.
will_page_break_in_footer(s, h) ==
    s.y + h > Trigger /\ (~s.in_footer \/ Len(s.out) < 2)

\* The automatic page-break test of cell and multi_cell.
will_page_break(s, h) == s.y + h > Trigger /\ ~s.in_footer

\* Place one cell: record it, then move the cursor as the ln argument says
\* (0: to the right, 1: to the start of the next line, 2: below).
PlaceCell(s, w, h, txt, num, lnarg, kind) ==
    LET w1 == IF w = 0 THEN PageW - RMargin - s.x ELSE w
        s1 == Emit(s, Ev(kind, s, w1, h, txt, num))
        s2 == [s1 EXCEPT !.lasth = h,
                         !.ftr = IF kind = "footer"
                                 THEN [@ EXCEPT ![s.page] = @ + 1] ELSE @,
                         !.hdr = IF kind = "header" /\ txt = "Page"
                                 THEN [@ EXCEPT ![s.page] = Append(@, num)] ELSE @]
    IN  CASE lnarg = 0 -> [s2 EXCEPT !.x = @ + w1]
          [] lnarg = 1 -> [s2 EXCEPT !.x = LMargin, !.y = @ + h]
          [] OTHER     -> [s2 EXCEPT !.y = @ + h]

RECURSIVE cell(_, _, _, _, _, _, _)
RECURSIVE add_page(_)

\* Mutant of footer: the footer suppressed on page 1, as the header is.
footer_not_on_first_page(s) ==
    IF s.page > 1
    THEN LET s1 == set_y(s, 0 - FooterOffset)
             s2 == set_font(s1, "Helvetica", "I", 8)
             s3 == set_text_color(s2, Grey)
         IN  cell(s3, 0, FooterH, Caption, 0, 0, "footer")
    ELSE s

\* Basic10Manual.footer
footer(s) ==
    LET s1 == set_y(s, 0 - FooterOffset)
        s2 == set_font(s1, "Helvetica", "I", 8)
        s3 == set_text_color(s2, Grey)
    IN  cell(s3, 0, FooterH, Caption, 0, 0, "footer")

\* Mutant of header: the test page_no() >= 1 in place of page_no() > 1.
header_on_first_page(s) ==
    IF s.page >= 1
    THEN LET s1 == set_font(s, "Helvetica", "I", 9)
             s2 == set_text_color(s1, Grey)
             s3 == cell(s2, HeaderW, HeaderH, DocTitle, 0, 0, "header")
             s4 == cell(s3, HeaderW, HeaderH, "Page", s3.page, 0, "header")
             s5 == ln(s4, HeaderH)
         IN  set_x(s5, 10)
    ELSE s

\* Mutant of header: the line feed after the two cells left out.
header_without_ln(s) ==
    IF s.page > 1
    THEN LET s1 == set_font(s, "Helvetica", "I", 9)
             s2 == set_text_color(s1, Grey)
             s3 == cell(s2, HeaderW, HeaderH, DocTitle, 0, 0, "header")
             s4 == cell(s3, HeaderW, HeaderH, "Page", s3.page, 0, "header")
         IN  set_x(s4, 10)
    ELSE s

\* Basic10Manual.header
header(s) ==
    IF s.page > 1
    THEN LET s1 == set_font(s, "Helvetica", "I", 9)
             s2 == set_text_color(s1, Grey)
             s3 == cell(s2, HeaderW, HeaderH, DocTitle, 0, 0, "header")
             s4 == cell(s3, HeaderW, HeaderH, "Page", s3.page, 0, "header")
             s5 == ln(s4, HeaderH)
         IN  set_x(s5, 10)
    ELSE s

\* Mutant of RestoreStyle: the font is put back, the colours are not.
RestoreFontOnly(s, st0) ==
    IF st0.family # ""
    THEN set_font(s, st0.family, st0.fstyle, st0.size) ELSE s

\* What add_page puts back after the hooks: the font (when one was set)
\* and the colours of the caller.
RestoreStyle(s, st0) ==
    LET s1 == IF st0.family # ""
              THEN set_font(s, st0.family, st0.fstyle, st0.size) ELSE s
    IN  [s1 EXCEPT !.st.text = st0.text, !.st.fill = st0.fill]

\* Mutant of add_page: a page after the first opened without a new index.
add_page_same_index(s) ==
    LET st0 == s.st
        s1 == IF s.page > 0
              THEN [footer([Emit(s, Mark("close", s))
                               EXCEPT !.in_footer = TRUE])
                       EXCEPT !.in_footer = FALSE]
              ELSE s
        s2 == [s1 EXCEPT !.page = IF @ = 0 THEN 1 ELSE @,
                         !.x = LMargin, !.y = TMargin,
                         !.st.family = "",
                         !.hdr = IF s1.page = 0 THEN Append(@, <<>>) ELSE @,
                         !.ftr = IF s1.page = 0 THEN Append(@, 0) ELSE @]
        s3 == RestoreStyle(s2, st0)
        s4 == header(Emit(s3, Mark("open", s3)))
        s5 == RestoreStyle(s4, st0)
    IN  Emit(s5, Ready(s5))

\* FPDF.add_page: footer on the page being closed, new page, cursor to the
\* top-left margin, style restored, header, style restored again.
add_page(s) ==
    LET st0 == s.st
        s1 == IF s.page > 0
              THEN [footer([Emit(s, Mark("close", s))
                               EXCEPT !.in_footer = TRUE])
                       EXCEPT !.in_footer = FALSE]
              ELSE s
        s2 == [s1 EXCEPT !.page = @ + 1, !.x = LMargin, !.y = TMargin,
                         !.st.family = "",
                         !.hdr = Append(@, <<>>), !.ftr = Append(@, 0)]
        s3 == RestoreStyle(s2, st0)
        s4 == header(Emit(s3, Mark("open", s3)))
        s5 == RestoreStyle(s4, st0)
    IN  Emit(s5, Ready(s5))

\* Mutant of cell: the cell placed first, the page broken afterwards.
cell_break_after(s, w, h, txt, num, lnarg, kind) ==
    LET s1 == PlaceCell(s, w, h, txt, num, lnarg, kind)
    IN  IF will_page_break(s, h)
        THEN [add_page(s1) EXCEPT !.x = s1.x, !.y = s1.y]
        ELSE s1

\* Mutant of cell: a unit that does not fit opens two pages.
cell_breaks_twice(s, w, h, txt, num, lnarg, kind) ==
    LET s1 == IF will_page_break(s, h)
              THEN [add_page(add_page(s)) EXCEPT !.x = s.x]
              ELSE s
    IN  PlaceCell(s1, w, h, txt, num, lnarg, kind)

\* FPDF.cell: break the page first when the cell does not fit (x is kept
\* across the break, y is where the header left it), then place the cell.
cell(s, w, h, txt, num, lnarg, kind) ==
    LET s1 == IF will_page_break(s, h)
              THEN [add_page(s) EXCEPT !.x = s.x]
              ELSE s
    IN  PlaceCell(s1, w, h, txt, num, lnarg, kind)

\* FPDF.multi_cell(0, h, text): n wrapped lines (n comes from the text
\* measurer), each placed as one unit after its own break test; afterwards
\* the cursor is below the last line, at the right end of the cell.
RECURSIVE multi_lines(_, _, _, _)
multi_lines(s, w, h, n) ==
    IF n = 0 THEN s
    ELSE LET s1 == IF will_page_break(s, h)
                   THEN [add_page(s) EXCEPT !.x = s.x]
                   ELSE s
         IN  multi_lines(PlaceCell(s1, w, h, "text", 0, 2, "cell"), w, h, n - 1)

multi_cell(s, h, n) ==
    LET w == PageW - RMargin - s.x
    IN  [multi_lines(s, w, h, n) EXCEPT !.x = s.x + w]

\* ---------------------------------------------------------- the renderers
chapter_title(s) ==
    LET s1 == set_font(s, "Helvetica", "B", 18)
        s2 == set_text_color(s1, TitleBlue)
        s3 == cell(s2, 0, 12, "heading", 0, 1, "cell")
    IN  ln(s3, 4)

\* Mutant of section_title: the trailing gap of chapter_title.
section_title_wide_gap(s) ==
    LET s1 == set_font(s, "Helvetica", "B", 14)
        s2 == set_text_color(s1, <<50, 50, 50>>)
        s3 == cell(s2, 0, 10, "heading", 0, 1, "cell")
    IN  ln(s3, 4)

\* Mutant of section_title: the heading kept with the next block, the page
\* broken when no text line would fit under the heading.
section_title_keep_with_next(s) ==
    LET s1 == set_font(s, "Helvetica", "B", 14)
        s2 == set_text_color(s1, <<50, 50, 50>>)
        s3 == IF s2.y + 10 + 2 + TextLineH > Trigger /\ ~will_page_break(s2, 10)
              THEN [add_page(s2) EXCEPT !.x = s2.x] ELSE s2
        s4 == cell(s3, 0, 10, "heading", 0, 1, "cell")
    IN  ln(s4, 2)

section_title(s) ==
    LET s1 == set_font(s, "Helvetica", "B", 14)
        s2 == set_text_color(s1, <<50, 50, 50>>)
        s3 == cell(s2, 0, 10, "heading", 0, 1, "cell")
    IN  ln(s3, 2)

subsection_title(s) ==
    LET s1 == set_font(s, "Helvetica", "B", 11)
        s2 == set_text_color(s1, <<80, 80, 80>>)
        s3 == cell(s2, 0, 8, "heading", 0, 1, "cell")
    IN  ln(s3, 1)

body_text(s, n) ==
    LET s1 == set_font(s, "Helvetica", "", 10)
        s2 == set_text_color(s1, Black)
        s3 == set_x(s2, 10)
        s4 == multi_cell(s3, TextLineH, n)
    IN  ln(s4, 2)

\* Mutant of code_lines: lines one unit taller.
RECURSIVE code_lines_taller(_, _, _)
code_lines_taller(s, i, n) ==
    IF i > n \/ s.page > MaxPages THEN s
    ELSE code_lines_taller(cell(set_x(s, 10), 0, CodeLineH + 1, "code", i, 1, "cell"),
                           i + 1, n)

\* The loop of code_block over the lines of the code (cut short once the
\* document is past MaxPages: no action commits such a call).
RECURSIVE code_lines(_, _, _)
code_lines(s, i, n) ==
    IF i > n \/ s.page > MaxPages THEN s
    ELSE code_lines(cell(set_x(s, 10), 0, CodeLineH, "code", i, 1, "cell"), i + 1, n)

\* Mutant of code_block: the trailing gap drawn as an empty cell, which is
\* subject to the page-break test, in place of ln(3).
code_block_gap_cell(s, n) ==
    LET s1 == set_font(s, "Courier", "", 9)
        s2 == set_fill_color(s1, CodeGrey)
        s3 == set_text_color(s2, Black)
        s4 == code_lines(s3, 1, n)
    IN  cell(s4, 0, 3, "gap", 0, 1, "gap")

code_block(s, n) ==
    LET s1 == set_font(s, "Courier", "", 9)
        s2 == set_fill_color(s1, CodeGrey)
        s3 == set_text_color(s2, Black)
        s4 == code_lines(s3, 1, n)
    IN  ln(s4, 3)

\* Mutant of bullet_point: lines one unit taller than those of body_text.
bullet_point_taller(s, n) ==
    LET s1 == set_font(s, "Helvetica", "", 10)
        s2 == set_text_color(s1, Black)
        s3 == set_x(s2, 10)
    IN  multi_cell(s3, TextLineH + 1, n)

bullet_point(s, n) ==
    LET s1 == set_font(s, "Helvetica", "", 10)
        s2 == set_text_color(s1, Black)
        s3 == set_x(s2, 10)
    IN  multi_cell(s3, TextLineH, n)

\* Mutant of row_cells: every cell drawn with ln=True.
RECURSIVE row_cells_ln(_, _, _, _, _, _, _)
row_cells_ln(s, ncols, widths, i, h, txt, num) ==
    IF i > ncols THEN s
    ELSE IF i > Len(widths) THEN [s EXCEPT !.err = "IndexError"]
    ELSE row_cells_ln(cell(s, widths[i], h, txt, num, 1, "cell"),
                      ncols, widths, i + 1, h, txt, num)

\* The loop of table_header / table_row over the ncols columns:
\*   for i, col in enumerate(cols): self.cell(widths[i], ...)
\* widths[i] raises IndexError when cols is longer than widths; the cells
\* drawn before it stay drawn.
RECURSIVE row_cells(_, _, _, _, _, _, _)
row_cells(s, ncols, widths, i, h, txt, num) ==
    IF i > ncols THEN s
    ELSE IF i > Len(widths) THEN [s EXCEPT !.err = "IndexError"]
    ELSE row_cells(cell(s, widths[i], h, txt, num, 0, "cell"),
                   ncols, widths, i + 1, h, txt, num)

\* Mutant of table_header: header cells as high as data rows.
table_header_row_height(s, ncols, widths) ==
    LET s1 == set_font(s, "Helvetica", "B", 9)
        s2 == set_fill_color(s1, TitleBlue)
        s3 == set_text_color(s2, White)
        s4 == row_cells(s3, ncols, widths, 1, TableRowH, "head", 0)
    IN  IF s4.err # "" THEN s4 ELSE ln_last(s4)

\* ncols is len(cols); an exception in the loop leaves the method before
\* its ln().
table_header(s, ncols, widths) ==
    LET s1 == set_font(s, "Helvetica", "B", 9)
        s2 == set_fill_color(s1, TitleBlue)
        s3 == set_text_color(s2, White)
        s4 == row_cells(s3, ncols, widths, 1, TableHeaderH, "head", 0)
    IN  IF s4.err # "" THEN s4 ELSE ln_last(s4)

\* The fill colour table_row selects for its fill argument.
RowFillColor(fill) == IF fill THEN StripeGrey ELSE White

\* Mutant of table_row: the fill colour set for striped rows only.
table_row_fill_when_striped(s, ncols, widths, fill, idx) ==
    LET s1 == set_font(s, "Courier", "", 8)
        s2 == set_text_color(s1, Black)
        s3 == IF fill THEN set_fill_color(s2, StripeGrey) ELSE s2
        s4 == row_cells(s3, ncols, widths, 1, TableRowH, "row", idx)
    IN  IF s4.err # "" THEN s4 ELSE ln_last(s4)

table_row(s, ncols, widths, fill, idx) ==
    LET s1 == set_font(s, "Courier", "", 8)
        s2 == set_text_color(s1, Black)
        s3 == set_fill_color(s2, RowFillColor(fill))
        s4 == row_cells(s3, ncols, widths, 1, TableRowH, "row", idx)
    IN  IF s4.err # "" THEN s4 ELSE ln_last(s4)

\* Mutant of StripeFlag: the parity of a one-based row number.
StripeFlagOneBased(i) == (i + 1) % 2 = 0

\* create_documentation: the fill argument it passes for row index i.
StripeFlag(i) == i % 2 = 0

\* What create_documentation passes to the calls it makes itself.
LnHeights == {3, 10, 60}
TableWidths == {<<50, 100>>, <<50, 50, 90>>}

\* ------------------------------------------------------------- the state
NoCall == [op |-> "none", n |-> 0, page0 |-> 0, y0 |-> 0, after_section |-> FALSE]
NoTable == [active |-> FALSE, widths |-> <<>>, ncols |-> 0, n |-> 0, i |-> 0,
            page0 |-> 0, y0 |-> 0, head |-> <<>>, rows |-> <<>>]

Init ==
    /\ page = 0
    /\ x = LMargin
    /\ y = TMargin
    /\ style = [family |-> "", fstyle |-> "", size |-> 12, text |-> Black, fill |-> Black]
    /\ hdr = <<>>
    /\ ftr = <<>>
    /\ out = <<>>
    /\ call = NoCall
    /\ tbl = NoTable
    /\ closed = FALSE
    /\ err = ""

\* The state after a call that turned the object into s.
Update(s) ==
    /\ s.page <= MaxPages
    /\ page' = s.page
    /\ x' = s.x
    /\ y' = s.y
    /\ style' = s.st
    /\ hdr' = s.hdr
    /\ ftr' = s.ftr
    /\ out' = s.out
    /\ err' = s.err

\* A renderer call: call remembers its name, its argument and where the
\* cursor was when it started.
Commit(s, op, n) ==
    /\ Update(s)
    /\ call' = [op |-> op, n |-> n, page0 |-> page, y0 |-> y,
                after_section |-> op = "body_text" /\ call.op = "section_title"]

\* A call of the engine itself (add_page, ln, output).
CommitPlain(s, op) ==
    /\ Update(s)
    /\ call' = [NoCall EXCEPT !.op = op]

\* A renderer may be called once a page is open, outside a table loop
\* (tbl keeps the rows of a finished table until the next call).
CanDraw == ~closed /\ err = "" /\ page > 0 /\ ~tbl.active

AddPage ==
    /\ ~closed /\ err = "" /\ ~tbl.active
    /\ CommitPlain(add_page(Pdf), "add_page")
    /\ tbl' = NoTable
    /\ UNCHANGED closed

ChapterTitle ==
    /\ CanDraw
    /\ Commit(chapter_title(Pdf), "chapter_title", 0)
    /\ tbl' = NoTable
    /\ UNCHANGED closed

SectionTitle ==
    /\ CanDraw
    /\ Commit(section_title(Pdf), "section_title", 0)
    /\ tbl' = NoTable
    /\ UNCHANGED closed

SubsectionTitle ==
    /\ CanDraw
    /\ Commit(subsection_title(Pdf), "subsection_title", 0)
    /\ tbl' = NoTable
    /\ UNCHANGED closed

BodyText ==
    /\ CanDraw
    /\ \E n \in 1..MaxWrap : Commit(body_text(Pdf, n), "body_text", n)
    /\ tbl' = NoTable
    /\ UNCHANGED closed

CodeBlock ==
    /\ CanDraw
    /\ \E n \in 1..MaxCodeLines : Commit(code_block(Pdf, n), "code_block", n)
    /\ tbl' = NoTable
    /\ UNCHANGED closed

BulletPoint ==
    /\ CanDraw
    /\ \E n \in 1..MaxWrap : Commit(bullet_point(Pdf, n), "bullet_point", n)
    /\ tbl' = NoTable
    /\ UNCHANGED closed

\* create_documentation: pdf.ln(h) between blocks.
Ln ==
    /\ CanDraw
    /\ \E h \in LnHeights :
          /\ y + h <= MaxY
          /\ CommitPlain(ln(Pdf, h), "ln")
    /\ tbl' = NoTable
    /\ UNCHANGED closed

\* create_documentation: widths = [...]; pdf.table_header(cols, widths),
\* ahead of the loop over the n rows of the table.
TableHeader ==
    /\ CanDraw
    /\ \E widths \in TableWidths, n \in 1..MaxRows :
          LET s == table_header(Pdf, Len(widths), widths)
              placed == s.out[Len(s.out)]
          IN  /\ Commit(s, "table_header", Len(widths))
              /\ tbl' = [active |-> TRUE, widths |-> widths,
                         ncols |-> Len(widths), n |-> n, i |-> 0,
                         page0 |-> page, y0 |-> y,
                         head |-> <<[page |-> placed.page, y |-> placed.y]>>,
                         rows |-> <<>>]
    /\ UNCHANGED closed

\* create_documentation: one turn of
\*   for i, row in enumerate(rows): pdf.table_row(row, widths, i % 2 == 0)
TableRow ==
    /\ ~closed /\ err = "" /\ tbl.active
    /\ LET s == table_row(Pdf, tbl.ncols, tbl.widths, StripeFlag(tbl.i), tbl.i)
           placed == s.out[Len(s.out)]
       IN  /\ Commit(s, "table_row", tbl.i)
           /\ tbl' = [tbl EXCEPT !.i = @ + 1,
                                 !.active = (tbl.i + 1 < tbl.n),
                                 !.rows = Append(@, [page |-> placed.page,
                                                     y |-> placed.y,
                                                     fill |-> placed.st.fill])]
    /\ UNCHANGED closed

\* FPDF.output: a document without pages gets one, the footer of the last
\* page is drawn, and the document is closed.
output(s) ==
    LET s0 == IF s.page = 0 THEN add_page(s) ELSE s
        s1 == footer([Emit(s0, Mark("close", s0)) EXCEPT !.in_footer = TRUE])
    IN  [s1 EXCEPT !.in_footer = FALSE]

\* Mutant of Output: the document written in a finally clause, also after
\* an exception.
OutputInFinally ==
    /\ ~closed /\ ~tbl.active
    /\ Update([output(Pdf) EXCEPT !.err = err])
    /\ call' = [NoCall EXCEPT !.op = "output"]
    /\ closed' = TRUE
    /\ tbl' = NoTable

\* create_documentation: pdf.output(output_path), its last drawing
\* statement: an exception raised before it leaves the function.
Output ==
    /\ ~closed /\ err = "" /\ ~tbl.active
    /\ CommitPlain(output(Pdf), "output")
    /\ closed' = TRUE
    /\ tbl' = NoTable

Next ==
    \/ AddPage
    \/ ChapterTitle
    \/ SectionTitle
    \/ SubsectionTitle
    \/ BodyText
    \/ CodeBlock
    \/ BulletPoint
    \/ Ln
    \/ TableHeader
    \/ TableRow
    \/ Output

Spec == Init /\ [][Next]_vars

\* A document that consists of one code block: add_page, one code_block of
\* up to MaxFlowLines lines, output.
FlowStart ==
    /\ ~closed /\ err = "" /\ page = 0
    /\ CommitPlain(add_page(Pdf), "add_page")
    /\ tbl' = NoTable
    /\ UNCHANGED closed

FlowCodeBlock ==
    /\ ~closed /\ err = "" /\ page = 1 /\ call.op = "add_page"
    /\ \E n \in 1..MaxFlowLines : Commit(code_block(Pdf, n), "code_block", n)
    /\ tbl' = NoTable
    /\ UNCHANGED closed

FlowOutput ==
    /\ ~closed /\ err = "" /\ call.op = "code_block"
    /\ CommitPlain(output(Pdf), "output")
    /\ closed' = TRUE
    /\ tbl' = NoTable

NextFlow ==
    \/ FlowStart
    \/ FlowCodeBlock
    \/ FlowOutput

SpecFlow == Init /\ [][NextFlow]_vars

\* The table methods called with a column count that is not the width
\* count (one column too few, one too many): calls create_documentation
\* never makes, but the methods accept.
ColumnCounts(widths) == {Len(widths) - 1, Len(widths) + 1}

TableHeaderMismatch ==
    /\ CanDraw
    /\ \E widths \in TableWidths : \E ncols \in ColumnCounts(widths) :
          /\ Commit(table_header(Pdf, ncols, widths), "table_header", ncols)
          /\ tbl' = [NoTable EXCEPT !.widths = widths, !.ncols = ncols]
    /\ UNCHANGED closed

TableRowMismatch ==
    /\ CanDraw
    /\ \E widths \in TableWidths : \E ncols \in ColumnCounts(widths) :
          /\ Commit(table_row(Pdf, ncols, widths, StripeFlag(0), 0), "table_row", 0)
          /\ tbl' = [NoTable EXCEPT !.widths = widths, !.ncols = ncols]
    /\ UNCHANGED closed

NextApi ==
    \/ AddPage
    \/ Ln
    \/ TableHeader
    \/ TableRow
    \/ TableHeaderMismatch
    \/ TableRowMismatch
    \/ Output

SpecApi == Init /\ [][NextApi]_vars

\* StyleContexts a caller can set before it draws a block: the one
\* create_documentation sets for its title page (set_font and
\* set_text_color called on the document itself), and one that differs from
\* what every renderer sets in every attribute.
PriorStyles ==
    { [family |-> "Helvetica", fstyle |-> "B", size |-> 36,
       text |-> TitleBlue, fill |-> Black],
      [family |-> "Times", fstyle |-> "I", size |-> 7,
       text |-> <<200, 0, 0>>, fill |-> <<0, 200, 0>>] }

\* A block drawn after the caller has moved the cursor and, possibly, set a
\* style of its own: add_page and ln calls, then set_font, set_text_color
\* and set_fill_color on the document, then one block (a table with its
\* rows), then output.
Placing == call.op \in {"add_page", "ln"}
Styled == call.op \in {"add_page", "ln", "set_style"}

StyleAddPage ==
    /\ call.op = "none" \/ Placing
    /\ AddPage

StyleLn == Placing /\ Ln

SetStyle ==
    /\ CanDraw /\ Placing
    /\ \E st \in PriorStyles :
          CommitPlain(set_fill_color(set_text_color(
                         set_font(Pdf, st.family, st.fstyle, st.size),
                         st.text), st.fill),
                      "set_style")
    /\ tbl' = NoTable
    /\ UNCHANGED closed

StyleChapterTitle == Styled /\ ChapterTitle
StyleSectionTitle == Styled /\ SectionTitle
StyleSubsectionTitle == Styled /\ SubsectionTitle
StyleBodyText == Styled /\ BodyText
StyleCodeBlock == Styled /\ CodeBlock
StyleBulletPoint == Styled /\ BulletPoint
StyleTableHeader == Styled /\ TableHeader
StyleTableRow == tbl.active /\ TableRow
StyleOutput == ~Styled /\ call.op # "none" /\ Output

NextStyle ==
    \/ StyleAddPage
    \/ StyleLn
    \/ SetStyle
    \/ StyleChapterTitle
    \/ StyleSectionTitle
    \/ StyleSubsectionTitle
    \/ StyleBodyText
    \/ StyleCodeBlock
    \/ StyleBulletPoint
    \/ StyleTableHeader
    \/ StyleTableRow
    \/ StyleOutput

SpecStyle == Init /\ [][NextStyle]_vars

\* The cells drawn with fill=True: the lines of code_block and the cells
\* of table_header and table_row.
FilledCell(e) == e.txt \in {"code", "head", "row"}

\* ------------------------------------------------------------ properties
IsMark(e) == e.kind \in {"close", "open", "ready"}
IsBlockCell(e) == e.kind = "cell"
BlockCells == {i \in DOMAIN out : IsBlockCell(out[i])}
Closes == {i \in DOMAIN out : out[i].kind = "close"}
AutoBreak == call.op \notin {"add_page", "output", "none"}
HeaderBottom == TMargin + HeaderH
CeilDiv(a, b) == (a + b - 1) \div b

\* C1: the header hook draws nothing on page 1, and on every page N > 1 it
\* draws the document title and then 'Page N' with that page's own index,
\* whether the page was opened by add_page or by an automatic break.
C1_HeaderOnEveryPageButTheFirst ==
    /\ Len(hdr) = page
    /\ \A p \in 1..page : hdr[p] = IF p = 1 THEN <<>> ELSE <<p>>
    /\ \A i \in DOMAIN out :
          /\ out[i].kind = "header" => out[i].page > 1
          /\ out[i].kind = "open" =>
                /\ i + 1 <= Len(out)
                /\ IF out[i].page = 1
                   THEN out[i + 1].kind = "ready"
                   ELSE /\ i + 3 <= Len(out)
                        /\ out[i + 1].kind = "header"
                        /\ out[i + 1].txt = DocTitle
                        /\ out[i + 1].page = out[i].page
                        /\ out[i + 2].kind = "header"
                        /\ out[i + 2].txt = "Page"
                        /\ out[i + 2].num = out[i].page
                        /\ out[i + 2].page = out[i].page
                        /\ out[i + 2].y = out[i + 1].y
                        /\ out[i + 3].kind = "ready"

\* C1 witness: an automatic break inside code_block opened page 3 and the
\* header drew 'Page 3' there.
C1_Witness ==
    /\ call.op = "code_block" /\ page = 3
    /\ \E i \in DOMAIN out :
          out[i].kind = "header" /\ out[i].txt = "Page" /\ out[i].num = 3

\* C2: every closed page carries exactly one footer with the fixed caption
\* and the open page none until the document is finished, when every page
\* has exactly one; a footer is drawn right when its page is closed, before
\* the next page is opened, and nothing of a later page precedes it.
C2_OneFooterPerPage ==
    /\ Len(ftr) = page
    /\ \A p \in 1..page : ftr[p] = IF p < page \/ closed THEN 1 ELSE 0
    /\ \A i \in DOMAIN out :
          /\ out[i].kind = "footer" =>
                /\ out[i].txt = Caption
                /\ out[i].y = PageH - FooterOffset
                /\ i > 1 /\ out[i - 1].kind = "close"
                /\ out[i - 1].page = out[i].page
                /\ \A j \in 1..(i - 1) : out[j].page <= out[i].page
                /\ \A j \in (i + 1)..Len(out) : out[j].page > out[i].page
                /\ IF i < Len(out)
                   THEN out[i + 1].kind = "open" /\ out[i + 1].page = out[i].page + 1
                   ELSE closed
          /\ out[i].kind = "close" =>
                i < Len(out) /\ out[i + 1].kind = "footer"

\* C2 witness: a finished document of three pages.
C2_Witness ==
    closed /\ page = 3 /\ ftr = <<1, 1, 1>>

\* C3: across an automatic page break inside a renderer the StyleContext
\* after the break (footer and header done) is the one before the break,
\* and the unit that caused the break is drawn with it, although the footer
\* and the header drew in italic Helvetica and grey in between.
C3_StyleKeptAcrossBreak ==
    AutoBreak =>
      \A i \in Closes :
        /\ i + 1 <= Len(out)
        /\ out[i + 1].kind = "footer"
        /\ out[i + 1].st.fstyle = "I" /\ out[i + 1].st.text = Grey
        /\ \E j \in (i + 1)..Len(out) :
              /\ out[j].kind = "ready"
              /\ \A k \in (i + 1)..(j - 1) : out[k].kind # "ready"
              /\ \E k \in (i + 1)..(j - 1) :
                    out[k].kind = "header" /\ out[k].st.fstyle = "I"
              /\ out[j].st = out[i].st
              /\ j + 1 <= Len(out)
              /\ IsBlockCell(out[j + 1])
              /\ out[j + 1].st = out[i].st
              /\ i > 1 /\ IsBlockCell(out[i - 1]) => out[i - 1].st = out[i].st

\* C3 witness: code_block broke the page between two of its lines.
C3_Witness ==
    /\ call.op = "code_block"
    /\ \E i \in Closes :
          /\ i > 1 /\ IsBlockCell(out[i - 1])
          /\ out[i].st.family = "Courier" /\ out[i].st.fill = CodeGrey

\* C4: row-atomicity. Every line of code_block lies on one page between the
\* top margin and the break threshold; the cells of one table_header or
\* table_row call are all on one page at one y with one height, one per
\* column; a break happens before the first cell of a row, never between
\* two of its cells.
C4_RowAtomicity ==
    /\ call.op = "code_block" =>
          /\ Cardinality(BlockCells) = call.n
          /\ \A i \in BlockCells :
                out[i].y >= TMargin /\ out[i].y + out[i].h <= Trigger
    /\ call.op \in {"table_header", "table_row"} =>
          /\ Cardinality(BlockCells) = Len(tbl.widths)
          /\ \A i, j \in BlockCells :
                /\ out[i].page = out[j].page
                /\ out[i].y = out[j].y
                /\ out[i].h = out[j].h
          /\ \A i \in BlockCells : out[i].y + out[i].h <= Trigger
          /\ \A i \in Closes : \A j \in BlockCells : i < j

\* C4 witness: a table_row of three columns that broke the page.
C4_Witness ==
    /\ call.op = "table_row" /\ Len(tbl.widths) = 3
    /\ Closes # {}
    /\ Cardinality(BlockCells) = 3

\* C5: data row i of a table is drawn with the light fill when i is even
\* and with the white (page-coloured) fill when i is odd, whether or not
\* page breaks fall between rows of the table.
ParityFill(i) == IF i % 2 = 0 THEN StripeGrey ELSE White

C5_FillByParity ==
    /\ \A k \in DOMAIN tbl.rows : tbl.rows[k].fill = ParityFill(k - 1)
    /\ call.op = "table_row" =>
          \A i \in BlockCells : out[i].st.fill = ParityFill(call.n)

\* C5 witness: a table whose rows 1 and 2 are on different pages.
C5_Witness ==
    /\ Len(tbl.rows) >= 3
    /\ tbl.rows[2].page < tbl.rows[3].page
    /\ tbl.rows[3].fill = StripeGrey


\* The placement of line i of the last code_block call.
CodeLine(i) == CHOOSE e \in {out[j] : j \in BlockCells} : e.num = i
HasCodeLine(i) == \E j \in BlockCells : out[j].num = i

\* Lines of code a page takes from its top: page 1, and a page with header.
LinesFirstPage == (Trigger - TMargin) \div CodeLineH
LinesLaterPage == (Trigger - HeaderBottom) \div CodeLineH
FlowCase == call.op = "code_block" /\ call.page0 = 1 /\ call.y0 = TMargin

\* C6 as stated: a document whose blocks are taller than one page has
\* ceil(totalHeight / availableHeightPerPage) pages, the total counted in
\* units or, by the line-atomicity rounding, in whole lines per page.
C6_PagesAreCeilOfHeight ==
    LET avail == PageH - TMargin - BMargin
        total == call.n * CodeLineH + 3
    IN  FlowCase /\ total > avail =>
          \/ page = CeilDiv(total, avail)
          \/ page = CeilDiv(call.n * CodeLineH, avail)
          \/ page = CeilDiv(call.n, avail \div CodeLineH)

\* C6 amended: a code block of n lines that starts at the top of page 1
\* ends on page 1 when n is at most the lines page 1 takes, and otherwise
\* on page 1 + ceil((n - that) / lines of a page with a header): the header
\* takes its height from every page but the first.
C6_PagesOfCodeBlock ==
    FlowCase =>
      page = IF call.n <= LinesFirstPage THEN 1
             ELSE 1 + CeilDiv(call.n - LinesFirstPage, LinesLaterPage)

\* C6 witness: a code block that fills pages 1 and 2 and ends on page 3.
C6_Witness ==
    FlowCase /\ page = 3 /\ call.n = LinesFirstPage + LinesLaterPage + 1

\* C7: when k lines of a code block exactly exhaust the height left on the
\* page, line k is the last one on that page, at the bottom of the content
\* area; a line k+1 is the first content of the next page, right under its
\* header; and a block that ends with line k opens no page: its trailing gap
\* only moves the cursor.
C7_ExactFit ==
    call.op = "code_block" /\ call.y0 < Trigger
      /\ (Trigger - call.y0) % CodeLineH = 0
      /\ (Trigger - call.y0) \div CodeLineH <= call.n =>
        LET k == (Trigger - call.y0) \div CodeLineH
        IN  /\ HasCodeLine(k)
            /\ CodeLine(k).page = call.page0
            /\ CodeLine(k).y + CodeLineH = Trigger
            /\ IF k < call.n
               THEN /\ HasCodeLine(k + 1)
                    /\ CodeLine(k + 1).page = call.page0 + 1
                    /\ CodeLine(k + 1).y = HeaderBottom
                    /\ \A j \in BlockCells :
                          out[j].page = call.page0 + 1 => out[j].num >= k + 1
               ELSE /\ page = call.page0
                    /\ Closes = {}
                    /\ y = Trigger + 3

\* C7 witness: a three-line code block that ended exactly at the threshold.
C7_Witness ==
    /\ call.op = "code_block" /\ call.n = 3
    /\ call.y0 + 3 * CodeLineH = Trigger
    /\ y = Trigger + 3

\* A finished table of the scenario of C8: widths [50, 100], four data rows,
\* started where 18 units were left on the page.
Scenario8 ==
    /\ tbl.widths = <<50, 100>> /\ tbl.n = 4 /\ Len(tbl.rows) = 4
    /\ tbl.y0 = Trigger - 18

\* C8 as stated: the header and the first two data rows are on the page the
\* table started on, data rows 3 and 4 on the next page, row 3 unfilled and
\* row 4 filled.
C8_ScenarioAsStated ==
    Scenario8 =>
      /\ tbl.head[1].page = tbl.page0
      /\ tbl.rows[1].page = tbl.page0 /\ tbl.rows[2].page = tbl.page0
      /\ tbl.rows[3].page = tbl.page0 + 1 /\ tbl.rows[4].page = tbl.page0 + 1
      /\ tbl.rows[3].fill = White /\ tbl.rows[4].fill = StripeGrey

\* C8 amended: the header (7 units) and the first data row (6 units) are on
\* the page the table started on; data rows 2, 3 and 4 are on the next page
\* under its header; the fills follow the zero-based row index as they do
\* without a break: rows 1 and 3 filled, rows 2 and 4 white.
C8_Scenario ==
    Scenario8 =>
      /\ tbl.head[1] = [page |-> tbl.page0, y |-> Trigger - 18]
      /\ tbl.rows[1] = [page |-> tbl.page0, y |-> Trigger - 18 + TableHeaderH,
                        fill |-> StripeGrey]
      /\ tbl.rows[2] = [page |-> tbl.page0 + 1, y |-> HeaderBottom, fill |-> White]
      /\ tbl.rows[3] = [page |-> tbl.page0 + 1, y |-> HeaderBottom + TableRowH,
                        fill |-> StripeGrey]
      /\ tbl.rows[4] = [page |-> tbl.page0 + 1, y |-> HeaderBottom + 2 * TableRowH,
                        fill |-> White]

\* C8 witness: the table of the scenario, finished.
C8_Witness ==
    Scenario8 /\ ~tbl.active /\ call.op = "table_row" /\ page = tbl.page0 + 1

\* C9: a three-line code block started with 12 units left on the page puts
\* lines 1 and 2 on that page (10 units) and line 3, after a page break,
\* as the only block content at the top of the next page.
C9_Scenario ==
    call.op = "code_block" /\ call.n = 3 /\ call.y0 = Trigger - 12 =>
      /\ HasCodeLine(1) /\ HasCodeLine(2) /\ HasCodeLine(3)
      /\ CodeLine(1).page = call.page0 /\ CodeLine(1).y = call.y0
      /\ CodeLine(2).page = call.page0 /\ CodeLine(2).y = call.y0 + CodeLineH
      /\ CodeLine(3).page = call.page0 + 1 /\ CodeLine(3).y = HeaderBottom
      /\ Cardinality(Closes) = 1
      /\ \A j \in BlockCells : out[j].page = call.page0 + 1 => out[j].num = 3
      /\ page = call.page0 + 1
      /\ y = HeaderBottom + CodeLineH + 3

\* C9 witness: the scenario happened on page 1.
C9_Witness ==
    /\ call.op = "code_block" /\ call.n = 3 /\ call.y0 = Trigger - 12
    /\ call.page0 = 1 /\ page = 2

\* C10 as stated: the cursor y is always between the top margin and the
\* page-break threshold.
C10_CursorInContentArea ==
    y >= TMargin /\ y <= Trigger

\* C10 amended: the cursor y is never above the top margin; every block or
\* header cell is drawn between the top margin and the threshold; the
\* footer is drawn FooterOffset above the bottom edge, below the threshold,
\* and the cursor itself passes the threshold only by a line feed (which
\* never breaks the page) or by the footer of output.
C10_DrawnInContentArea ==
    /\ y >= TMargin
    /\ \A i \in DOMAIN out :
          /\ out[i].kind \in {"cell", "header"} =>
                out[i].y >= TMargin /\ out[i].y + out[i].h <= Trigger
          /\ out[i].kind = "footer" => out[i].y = PageH - FooterOffset
    /\ y > Trigger =>
          \/ call.op = "output"
          \/ call.op = "ln"
          \/ call.op \in {"chapter_title", "section_title", "subsection_title",
                          "body_text", "code_block"}
               /\ y <= Trigger + 4

\* C10 witness: the trailing line feed of code_block left the cursor below
\* the threshold.
C10_Witness ==
    call.op = "code_block" /\ y > Trigger /\ BlockCells # {}

\* The last call was a table method given a column count that is not the
\* width count.
MismatchCall ==
    call.op \in {"table_header", "table_row"} /\ tbl.ncols # Len(tbl.widths)

\* C11: a table_header or table_row call whose column count differs from
\* its width count fails with an error and leaves no partial effect: no
\* cell of the row is drawn, and page and cursor are where they were.
C11_MismatchFailsFast ==
    MismatchCall =>
      /\ err # ""
      /\ BlockCells = {}
      /\ page = call.page0
      /\ y = call.y0

\* C12: the artifact is written only by output, after the last block: a
\* failed draw call leaves the document unwritten for good, a written
\* document is complete (every page closed with its footer, no table loop
\* open), and nothing is drawn or written after it was written once.
C12_WrittenOnceWhenComplete ==
    /\ [](err # "" => ~closed)
    /\ [](closed => /\ call.op = "output" /\ ~tbl.active
                    /\ \A p \in 1..page : ftr[p] = 1)
    /\ [][~closed /\ err = ""]_vars

\* C12 witness: a draw call failed on an open page; nothing was written.
C12_Witness ==
    err = "IndexError" /\ page >= 1 /\ ~closed /\ BlockCells # {}

\* C13 as stated: bullet_point(text) draws what body_text of the prefixed
\* text draws (same lines, same places, same page breaks) and leaves the
\* cursor where body_text leaves it.
C13_BulletAsBodyText ==
    [][call'.op = "bullet_point" =>
         LET b == body_text(Pdf, call'.n)
         IN  /\ out' = b.out
             /\ page' = b.page
             /\ y' = b.y
             /\ x' = b.x]_vars

\* C13 amended: bullet_point draws the lines body_text draws, in the same
\* style, at the same places and with the same page breaks, but ends
\* without the 2-unit gap of body_text: its cursor is 2 units higher, and
\* at the right edge of the text instead of the left margin.
C13_BulletWithoutGap ==
    [][call'.op = "bullet_point" =>
         LET b == body_text(Pdf, call'.n)
         IN  /\ out' = b.out
             /\ page' = b.page
             /\ style' = b.st
             /\ y' = b.y - 2
             /\ x' = PageW - RMargin
             /\ b.x = LMargin]_vars

\* C13 witness: a bullet of two wrapped lines that broke the page.
C13_Witness ==
    call.op = "bullet_point" /\ call.n = 2 /\ Closes # {} /\ page = call.page0 + 1

\* The heading cell a heading renderer drew (s its result), and the gap it
\* left under that cell.
HeadingCell(s) == s.out[Len(s.out)]
TrailingGap(s) == s.y - (HeadingCell(s).y + HeadingCell(s).h)

\* C14: wherever a heading can be drawn, chapter_title, section_title and
\* subsection_title are strictly ordered in font size and in trailing gap,
\* and each moves the cursor down by its line height plus its gap when it
\* opens no page; the heading just drawn moved it by 16, 12 or 9 units.
C14_HeadingHierarchy ==
    /\ CanDraw =>
         LET c == chapter_title(Pdf)
             s == section_title(Pdf)
             u == subsection_title(Pdf)
         IN  /\ HeadingCell(c).st.size > HeadingCell(s).st.size
             /\ HeadingCell(s).st.size > HeadingCell(u).st.size
             /\ TrailingGap(c) > TrailingGap(s)
             /\ TrailingGap(s) > TrailingGap(u)
             /\ TrailingGap(u) > 0
             /\ \A r \in {c, s, u} :
                   r.page = page =>
                     r.y = y + HeadingCell(r).h + TrailingGap(r)
    /\ call.page0 = page =>
         /\ call.op = "chapter_title" => y = call.y0 + 12 + 4
         /\ call.op = "section_title" => y = call.y0 + 10 + 2
         /\ call.op = "subsection_title" => y = call.y0 + 8 + 1

\* C14 witness: a section heading drawn below other content without a page
\* break.
C14_Witness ==
    /\ call.op = "section_title" /\ call.page0 = page
    /\ call.y0 > TMargin /\ y = call.y0 + 12

\* The page transitions of the last call: the places in out where a page
\* was closed to open the next one (output closes the last page only).
Transitions == IF call.op = "output" THEN {} ELSE Closes

\* The events of a kind drawn on page p by the last call.
EventsOn(kind, p) == {i \in DOMAIN out : out[i].kind = kind /\ out[i].page = p}

\* C15: every page transition runs in the order footer on the page being
\* closed, new page, header on the new page (its two cells), and only then
\* the content that caused the break; footer and header run once per
\* transition, no block content of the new page precedes its header, and
\* none of the closed page follows its footer.
C15_TransitionOrder ==
    /\ \A i \in Transitions :
          /\ i + 5 <= Len(out)
          /\ out[i + 1].kind = "footer" /\ out[i + 1].page = out[i].page
          /\ out[i + 2].kind = "open" /\ out[i + 2].page = out[i].page + 1
          /\ out[i + 3].kind = "header" /\ out[i + 3].page = out[i].page + 1
          /\ out[i + 4].kind = "header" /\ out[i + 4].page = out[i].page + 1
          /\ out[i + 5].kind = "ready" /\ out[i + 5].page = out[i].page + 1
          /\ AutoBreak =>
                /\ i + 6 <= Len(out)
                /\ IsBlockCell(out[i + 6])
                /\ out[i + 6].page = out[i].page + 1
          /\ \A k \in BlockCells :
                IF k < i THEN out[k].page <= out[i].page
                ELSE k > i + 5 /\ out[k].page > out[i].page
    /\ \A p \in 1..page :
          /\ Cardinality(EventsOn("footer", p)) <= 1
          /\ Cardinality(EventsOn("header", p)) \in {0, 2}
          /\ Cardinality(EventsOn("open", p)) <= 1
    /\ AutoBreak /\ call.op # "ln" => Cardinality(Closes) = page - call.page0
    /\ call.op # "output" =>
          /\ \A i \in DOMAIN out :
                out[i].kind = "open" /\ out[i].page > 1 =>
                   i > 2 /\ out[i - 2].kind = "close"

\* C15 witness: a section heading that did not fit: the page was closed,
\* the next one opened, and the heading drawn there after the header.
C15_Witness ==
    /\ call.op = "section_title"
    /\ \E i \in Closes :
          /\ i + 6 = Len(out)
          /\ out[i + 4].kind = "header"
          /\ IsBlockCell(out[i + 6]) /\ out[i + 6].page = call.page0 + 1

\* C16: right after a page break the cursor is at the left margin, below
\* the header (at the top margin on page 1), and the content that caused
\* the break is drawn from exactly that position.
C16_ContentAtTopLeft ==
    \A j \in DOMAIN out :
       out[j].kind = "ready" =>
          /\ out[j].x = LMargin
          /\ out[j].y = IF out[j].page = 1 THEN TMargin ELSE HeaderBottom
          /\ j < Len(out) /\ IsBlockCell(out[j + 1]) =>
                /\ out[j + 1].x = out[j].x
                /\ out[j + 1].y = out[j].y

\* C17: the hooks never break the page. The footer cell is drawn below the
\* page-break threshold and yet on the page being closed, directly after
\* its close and directly before the next page is opened; the header cells
\* fit above the threshold on the page just opened; between a close and
\* the end of its transition no other close or open occurs (no hook is
\* re-entered); and the footer run at any cursor position of any reachable
\* page, like the header run at the top of it, leaves the page index alone.
C17_HooksNeverBreak ==
    /\ \A i \in DOMAIN out :
          /\ out[i].kind = "footer" =>
                /\ out[i].y + out[i].h > Trigger
                /\ i > 1 /\ out[i - 1].kind = "close"
                /\ out[i - 1].page = out[i].page
                /\ i < Len(out) =>
                      out[i + 1].kind = "open" /\ out[i + 1].page = out[i].page + 1
          /\ out[i].kind = "header" =>
                /\ out[i].y + out[i].h <= Trigger
                /\ \E j \in 1..(i - 1) :
                      /\ out[j].kind = "open" /\ out[j].page = out[i].page
                      /\ \A k \in (j + 1)..(i - 1) : out[k].kind = "header"
          /\ out[i].kind = "close" =>
                \A j \in (i + 1)..Len(out) :
                   out[j].kind \in {"close", "open"} =>
                      \/ out[j].kind = "open" /\ j = i + 2
                      \/ \E k \in (i + 1)..(j - 1) : out[k].kind = "ready"
          /\ out[i].kind = "open" =>
                \E j \in (i + 1)..Len(out) :
                   /\ out[j].kind = "ready" /\ out[j].page = out[i].page
                   /\ \A k \in (i + 1)..(j - 1) :
                         out[k].kind = "header" /\ out[k].page = out[i].page
    /\ page > 0 /\ ~closed =>
          LET f == footer([Pdf EXCEPT !.in_footer = TRUE])
              g == header([Pdf EXCEPT !.x = LMargin, !.y = TMargin])
          IN  /\ f.page = page /\ Len(f.out) = 1
              /\ f.out[1].kind = "footer" /\ f.out[1].page = page
              /\ g.page = page
              /\ \A k \in DOMAIN g.out : g.out[k].kind = "header"

\* C17 witness: table_header broke the page; the footer of the closed page
\* was drawn below the threshold and the header on the page opened.
C17_Witness ==
    /\ call.op = "table_header" /\ page = call.page0 + 1
    /\ \E i \in DOMAIN out :
          /\ out[i].kind = "footer" /\ out[i].y + out[i].h > Trigger
          /\ out[i].page = call.page0
    /\ \E i \in DOMAIN out : out[i].kind = "header" /\ out[i].page = page

\* The places in a sequence of events where a page was opened.
Opens(events) == {i \in DOMAIN events : events[i].kind = "open"}

\* C18: page indices are 1, 2, 3, ... in creation order and never change.
\* In every step the page index does not decrease and grows by exactly the
\* number of pages opened, the k-th page opened getting the index of the
\* page before the step plus k; everything drawn in the step lies on the
\* current page or a later one, in non-decreasing page order (nothing is
\* placed on an earlier page once a later one is open); and what earlier
\* pages carry (header, footer) is left as it was.
C18_PageIndexMonotone ==
    [][/\ page' >= page
       /\ page' = page + Cardinality(Opens(out'))
       /\ Len(hdr') = page' /\ Len(ftr') = page'
       /\ \A i \in Opens(out') :
             out'[i].page = page + Cardinality({j \in Opens(out') : j <= i})
       /\ \A i \in DOMAIN out' :
             /\ out'[i].page >= page /\ out'[i].page <= page'
             /\ \A j \in DOMAIN out' : i < j => out'[i].page <= out'[j].page
       /\ \A p \in 1..(page - 1) : hdr'[p] = hdr[p] /\ ftr'[p] = ftr[p]
       /\ page >= 1 => hdr'[page] = hdr[page]]_vars

\* C18 witness: body_text of two lines went over from page 2 to page 3.
C18_Witness ==
    /\ call.op = "body_text" /\ call.n = 2 /\ call.page0 = 2 /\ page = 3
    /\ \E i \in BlockCells : out[i].page = 2
    /\ \E i \in BlockCells : out[i].page = 3

\* The first block cell of the last call, and the block cell before cell k.
FirstCell == CHOOSE i \in BlockCells : \A j \in BlockCells : i <= j
CellBefore(k) == CHOOSE i \in BlockCells : i < k /\ \A j \in BlockCells : j < k => j <= i

\* The page a unit of height h goes to when the cursor is at y on page p.
PageFor(p, yy, h) == IF yy + h > Trigger THEN p + 1 ELSE p

\* C19: the break decision of a unit depends on the cursor y, the threshold
\* and the unit's own height only. The first unit of a renderer call goes
\* to the next page exactly when it does not fit under the cursor the call
\* started with; every further line of a text or code block exactly when it
\* does not fit under the line before it; the cells of a table row go
\* where its first cell went; and a section heading that fits is drawn on
\* the current page whatever is called next.
C19_BreakByOwnHeight ==
    /\ AutoBreak /\ BlockCells # {} =>
          /\ out[FirstCell].page = PageFor(call.page0, call.y0, out[FirstCell].h)
          /\ \A k \in BlockCells \ {FirstCell} :
                LET b == out[CellBefore(k)]
                IN  IF call.op \in {"table_header", "table_row"}
                    THEN out[k].page = b.page /\ out[k].y = b.y
                    ELSE out[k].page = PageFor(b.page, b.y + b.h, out[k].h)
    /\ CanDraw =>
          LET s == section_title(Pdf)
          IN  /\ HeadingCell(s).page = PageFor(page, y, HeadingCell(s).h)
              /\ s.page = HeadingCell(s).page

\* C19 witness: a section heading was the last content of its page: the
\* body_text called right after it did not fit and starts the next page.
C19_Witness ==
    /\ call.op = "body_text" /\ call.after_section
    /\ call.y0 <= Trigger
    /\ BlockCells # {}
    /\ \A k \in BlockCells : out[k].page = call.page0 + 1

\* The atomic units of the last call: the lines of a text or code block,
\* the one cell of a heading, the one row of a table method.
Units ==
    IF call.op \in {"code_block", "body_text", "bullet_point"} THEN call.n ELSE 1

\* A unit taller than the room of a fresh page, drawn from the state s.
OversizeUnit(s) == cell(s, 0, PageH, "unit", 0, 1, "cell")

\* C20: a renderer call ends after finitely many steps, each a block cell
\* or one of the six steps of a page transition; it opens at most one page
\* per atomic unit (code_block and text of n lines at most n, the rows of a
\* table at most one each), and every page opened receives at once the
\* unit that caused the break. A unit that does not even fit on a fresh
\* page opens exactly one page and is drawn there, and so does the next.
C20_OnePagePerUnit ==
    /\ AutoBreak /\ call.op # "ln" =>
          /\ Len(out) = Cardinality(BlockCells) + 6 * Cardinality(Closes)
          /\ Cardinality(Closes) <= Units
          /\ page - call.page0 <= Units
          /\ \A j \in DOMAIN out :
                out[j].kind = "ready" => j < Len(out) /\ IsBlockCell(out[j + 1])
    /\ Len(tbl.rows) >= 1 =>
          tbl.rows[Len(tbl.rows)].page - tbl.head[1].page <= Len(tbl.rows)
    /\ CanDraw =>
          LET s == OversizeUnit(Pdf)
              t == OversizeUnit(s)
          IN  /\ s.page = page + 1
              /\ Cardinality(Opens(s.out)) = 1
              /\ s.out[Len(s.out)].kind = "cell"
              /\ s.out[Len(s.out)].page = page + 1
              /\ s.out[Len(s.out)].y = HeaderBottom
              /\ t.page = page + 2
              /\ Cardinality(Opens(t.out)) = 2

\* C20 witness: a subsection heading that did not fit opened one page and
\* was drawn there.
C20_Witness ==
    /\ call.op = "subsection_title" /\ page = call.page0 + 1
    /\ Cardinality(Closes) = 1
    /\ Cardinality(BlockCells) = 1

\* The style a cell is drawn with: its font and text colour, and its fill
\* colour when the cell is filled.
DrawnStyle(e) ==
    [family |-> e.st.family, fstyle |-> e.st.fstyle, size |-> e.st.size,
     text |-> e.st.text, fill |-> IF FilledCell(e) THEN e.st.fill ELSE <<>>]

\* What a renderer drew (s its result): its block cells in order, each with
\* its place and the style it was drawn with.
Drawn(s) ==
    LET c == SelectSeq(s.out, IsBlockCell)
    IN  [i \in DOMAIN c |->
           [page |-> c[i].page, x |-> c[i].x, y |-> c[i].y, w |-> c[i].w,
            h |-> c[i].h, txt |-> c[i].txt, num |-> c[i].num,
            style |-> DrawnStyle(c[i])]]

\* The document as it is, but with the StyleContext st.
WithStyle(st) == [Pdf EXCEPT !.st = st]

\* The StyleContexts a renderer is tried with: the one of the current
\* state and the prior ones a caller can leave.
Contexts == PriorStyles \cup {style}

\* C21: the style a block is drawn with does not depend on the calls before
\* it. From every reachable state in which a renderer can be called, each of
\* the eight renderers draws one and the same block (the same cells, at the
\* same places, with the same font, text colour and, where it fills, fill
\* colour) whether it starts with the StyleContext of that state or with
\* any other one; and the cells of the block just drawn all have one style,
\* with a font set.
C21_StyleIndependentOfPrior ==
    /\ page > 0 /\ ~closed /\ err = "" =>
          /\ Cardinality({Drawn(chapter_title(WithStyle(st))) : st \in Contexts}) = 1
          /\ Cardinality({Drawn(section_title(WithStyle(st))) : st \in Contexts}) = 1
          /\ Cardinality({Drawn(subsection_title(WithStyle(st))) : st \in Contexts}) = 1
          /\ Cardinality({Drawn(body_text(WithStyle(st), MaxWrap)) : st \in Contexts}) = 1
          /\ Cardinality({Drawn(bullet_point(WithStyle(st), MaxWrap)) : st \in Contexts}) = 1
          /\ Cardinality({Drawn(code_block(WithStyle(st), MaxCodeLines)) :
                             st \in Contexts}) = 1
          /\ \A widths \in TableWidths :
                /\ Cardinality({Drawn(table_header(WithStyle(st), Len(widths), widths)) :
                                   st \in Contexts}) = 1
                /\ \A fill \in BOOLEAN :
                      Cardinality({Drawn(table_row(WithStyle(st), Len(widths), widths,
                                                   fill, 0)) : st \in Contexts}) = 1
    /\ \A i \in BlockCells :
          /\ out[i].st.family # ""
          /\ \A j \in BlockCells : DrawnStyle(out[i]) = DrawnStyle(out[j])

\* C21 witness: a chapter title that broke the page, drawn in its own style
\* (bold Helvetica 18, blue) although the caller had set italic Times 7 in
\* red with a green fill, of which the unused fill colour is still in the
\* StyleContext.
C21_Witness ==
    /\ call.op = "chapter_title" /\ style.fill = <<0, 200, 0>>
    /\ Closes # {}
    /\ Cardinality(BlockCells) = 1
    /\ \A i \in BlockCells :
          /\ out[i].st.family = "Helvetica" /\ out[i].st.fstyle = "B"
          /\ out[i].st.size = 18 /\ out[i].st.text = TitleBlue

====
